---- MODULE Spec2Model ----
(***************************************************************************)
(* BaseAdapter of holiday_peak_lib/adapters/base.py: the rate limiter, the *)
(* TTL/LRU cache, the circuit breaker and the retry loop around the        *)
(* _fetch_impl / _upsert_impl / _delete_impl hooks, run by several         *)
(* coroutines of one asyncio event loop.                                   *)
(*                                                                         *)
(* Time is time.monotonic() in whole ticks.  A coroutine runs from one     *)
(* suspension point (asyncio.sleep, asyncio.wait_for) to the next without  *)
(* interleaving; the adapter's asyncio.Lock is only ever taken inside such *)
(* a run, so every critical section is part of one atomic action.          *)
(*                                                                         *)
(* BaseConnector of the same file: connect, _fetch_first / _fetch_many     *)
(* around the adapter's fetch, and _map_single / _map_many, whose          *)
(* validation tasks are run by the event loop (ConnSpec).                  *)
(*                                                                         *)
(* AliasSpec: the record lists as objects with identity, to tell the list  *)
(* a fetch returns from the list the cache stores.                         *)
(***************************************************************************)
EXTENDS Integers, Sequences, FiniteSets, TLC

\* ---------------------------------------------------------------- bounds
NumTasks == 2
MaxTime == 3
MaxOps == 4
NumKeys == 3
NumValues == 1
NumCallers == 2
MaxPayloads == 3
MaxConnOps == 2
\* constructor arguments of the adapter under test
MaxCalls == 2
PerSeconds == 1
CacheTtl == 1
CacheSize == 2
MaxRetries == 1
BaseDelay == 1
MaxDelay == 1
Timeout == 1
CircuitBreakerThreshold == 2
CircuitResetSeconds == 2

Tasks == 1..NumTasks
\* what a hook returns: a list of v records
Values == 0..NumValues
Ops == {"fetch", "upsert", "delete"}

\* The adapters and callers explored.
\* Sequential: one caller making up to MaxOps calls for NumKeys queries, with
\* max_calls 0 or MaxCalls and retries 0 or MaxRetries.
\* Concurrent: every coroutine calls the adapter, the first one up to
\* MaxOps - 1 times and the others once each, without retries, all for one
\* query and with a cache of one entry; the hook returns no record or one.
\* Persistent: one caller with as many retries as the circuit breaker's
\* threshold, so that one call can open the circuit and go on retrying.
\* Unconfigured: a connector without adapter (BaseConnector(adapter=None)).
Configs ==
    { [adapter |-> TRUE, max_calls |-> mc, retries |-> r, cache_size |-> CacheSize,
       num_keys |-> NumKeys, callers |-> 1, values |-> 1..NumValues] :
          mc \in {0, MaxCalls}, r \in {0, MaxRetries} }
    \cup
    { [adapter |-> TRUE, max_calls |-> MaxCalls, retries |-> 0, cache_size |-> 1,
       num_keys |-> 1, callers |-> NumTasks, values |-> 0..NumValues] }
    \cup
    { [adapter |-> TRUE, max_calls |-> MaxCalls, retries |-> CircuitBreakerThreshold,
       cache_size |-> 1, num_keys |-> 1, callers |-> 1, values |-> 1..NumValues] }
    \cup
    { [adapter |-> FALSE, max_calls |-> MaxCalls, retries |-> 0, cache_size |-> 1,
       num_keys |-> 1, callers |-> 1, values |-> 1..NumValues] }

Budget(c, t) ==
    IF t > c.callers THEN 0
    ELSE IF c.callers = 1 THEN MaxOps
    ELSE IF t = 1 THEN MaxOps - 1 ELSE 1

VARIABLES
    cfg,            \* the constructor arguments and the callers (never changes)
    now,            \* time.monotonic()
    rate_window,    \* self._rate_window
    cache,          \* self._cache, in OrderedDict order (oldest first)
    failure_count,  \* self._failure_count
    opened_until,   \* self._opened_until (0 = not set)
    task,           \* the coroutines calling the adapter
    opsLeft,        \* calls each caller may still start
    lock,           \* the task holding self._lock, or 0
    fetched,        \* per task: what BaseConnector._fetch_first gave its caller
    \* what an observer of the adapter records (read by no action's guard)
    admitLog,       \* times of the admissions of the last PerSeconds
    written,        \* per query: when and what the last cache write was
    recency,        \* the cached queries, least recently accessed first
    mustRefetch,    \* queries cached before a write and not fetched since
    consec,         \* failed attempts since the last success or reset
    tripAt,         \* time of the failure that last opened the circuit, or -1
    evictions,      \* "none", or the kind of eviction seen so far
    everRejected,   \* whether the open circuit has rejected a call
    hookLog,        \* the hook invocations of the last PerSeconds: <<time, attempt>>
    obs,            \* per task: what happened in its current / last call
    \* the connector and the event loop running its validation tasks
    conn,           \* [adapter, map_concurrency]: BaseConnector.__init__'s arguments
    map_semaphore,  \* self._map_semaphore: [value, waiters]
    ready,          \* the event loop's queue of callbacks ready to run
    call,           \* per caller: its connect / _map_single / _map_many call
    connLeft,       \* calls each caller of the connector may still start
    \* the record lists as Python objects (AliasSpec)
    heap,           \* the list objects created so far: heap[r] is the content of r
    held            \* the list object a fetch last returned to its caller, or 0

codeVars == <<cfg, now, rate_window, cache, failure_count, opened_until, task, opsLeft,
              lock, fetched>>
obsVars == <<admitLog, written, recency, mustRefetch, consec, tripAt, evictions,
             everRejected, hookLog, obs>>
connVars == <<conn, map_semaphore, ready, call, connLeft>>
heapVars == <<heap, held>>
vars == <<codeVars, obsVars, connVars, heapVars>>

\* A query is a dict, here the sequence of its (field, value) items in
\* insertion order.  Field 1 is shared, field 2 tells the queries apart;
\* the first query also comes with its items inserted in the other order.
QueriesOf(n) ==
    { << <<1, 1>>, <<2, k>> >> : k \in 1..n } \cup { << <<2, 1>>, <<1, 1>> >> }

Queries == QueriesOf(cfg.num_keys)

\* What a query asks for, whatever the order of its items.
Items(q) == { q[i] : i \in DOMAIN q }

QIds == { Items(q) : q \in QueriesOf(NumKeys) }

\* ------------------------------------------------------------ cache key
ItemLess(a, b) == a[1] < b[1] \/ (a[1] = b[1] /\ a[2] < b[2])

\* the key without the sort: tuple(query.items())
CacheKeyUnsorted(query) == query

\* tuple(sorted(query.items()))
CacheKey(query) == SortSeq(query, ItemLess)

\* ---------------------------------------------------------------- cache
IndexOf(c, k) ==
    IF \E i \in DOMAIN c : c[i].key = k
    THEN CHOOSE i \in DOMAIN c : c[i].key = k
    ELSE 0

Remove(c, i) == SubSeq(c, 1, i - 1) \o SubSeq(c, i + 1, Len(c))

MoveToEnd(c, k) ==
    LET i == IndexOf(c, k) IN Remove(c, i) \o <<c[i]>>

\* _get_cached without the expiry test
GetCachedNoExpiry(c, k, t) ==
    LET i == IndexOf(c, k) IN
    IF i = 0
    THEN [hit |-> FALSE, value |-> 0, cache |-> c]
    ELSE [hit |-> TRUE, value |-> c[i].value, cache |-> MoveToEnd(c, k)]

\* _get_cached without move_to_end on a hit
GetCachedNoTouch(c, k, t) ==
    LET i == IndexOf(c, k) IN
    IF i = 0
    THEN [hit |-> FALSE, value |-> 0, cache |-> c]
    ELSE IF t > c[i].expires_at
         THEN [hit |-> FALSE, value |-> 0, cache |-> Remove(c, i)]
         ELSE [hit |-> TRUE, value |-> c[i].value, cache |-> c]

\* _get_cached: [hit, value, cache']
GetCached(c, k, t) ==
    IF CacheTtl <= 0
    THEN [hit |-> FALSE, value |-> 0, cache |-> c]
    ELSE LET i == IndexOf(c, k) IN
         IF i = 0
         THEN [hit |-> FALSE, value |-> 0, cache |-> c]
         ELSE IF t > c[i].expires_at
              THEN [hit |-> FALSE, value |-> 0, cache |-> Remove(c, i)]
              ELSE [hit |-> TRUE, value |-> c[i].value, cache |-> MoveToEnd(c, k)]

\* _set_cache that never evicts
SetCacheNoEvict(c, k, v, t) ==
    LET e == [key |-> k, expires_at |-> t + CacheTtl, value |-> v]
        i == IndexOf(c, k)
        c1 == IF i = 0 THEN Append(c, e) ELSE [c EXCEPT ![i] = e]
    IN  MoveToEnd(c1, k)

\* _set_cache that keeps the entry a key already has (setdefault)
SetCacheKeepOld(c, k, v, t) ==
    LET e == [key |-> k, expires_at |-> t + CacheTtl, value |-> v]
        i == IndexOf(c, k)
        c1 == IF i = 0 THEN Append(c, e) ELSE c
        c2 == MoveToEnd(c1, k)
    IN  IF Len(c2) > cfg.cache_size THEN Tail(c2) ELSE c2

\* _set_cache
SetCache(c, k, v, t) ==
    IF CacheTtl <= 0
    THEN c
    ELSE LET e == [key |-> k, expires_at |-> t + CacheTtl, value |-> v]
             i == IndexOf(c, k)
             c1 == IF i = 0 THEN Append(c, e) ELSE [c EXCEPT ![i] = e]
             c2 == MoveToEnd(c1, k)
         IN  IF Len(c2) > cfg.cache_size THEN Tail(c2) ELSE c2

\* _clear_cache
ClearCache(c) == <<>>

\* --------------------------------------------------------- rate limiter
\* a window that is never trimmed
TrimWindowNever(w, t) == w

\* the window trimmed with >= in place of >
RECURSIVE TrimWindowEarly(_, _)
TrimWindowEarly(w, t) ==
    IF w # <<>> /\ t - Head(w) >= PerSeconds
    THEN TrimWindowEarly(Tail(w), t)
    ELSE w

\* while window and now - window[0] > self._per_seconds: window.popleft()
RECURSIVE TrimWindow(_, _)
TrimWindow(w, t) ==
    IF w # <<>> /\ t - Head(w) > PerSeconds
    THEN TrimWindow(Tail(w), t)
    ELSE w

\* one evaluation of _acquire_rate_limit: [window', admitted, error, wait_for]
AcquireRateLimit(w, t, mc) ==
    LET window == TrimWindow(w, t) IN
    IF Len(window) < mc
    THEN [window |-> Append(window, t), admitted |-> TRUE, error |-> FALSE, wait_for |-> 0]
    ELSE IF window = <<>>
         THEN [window |-> window, admitted |-> FALSE, error |-> TRUE, wait_for |-> 0]
         ELSE [window |-> window, admitted |-> FALSE, error |-> FALSE,
               wait_for |-> PerSeconds - (t - Head(window))]

\* ------------------------------------------------------ circuit breaker
\* _ensure_circuit_allows with now <= opened_until in place of <
EnsureCircuitAllowsLate(fc, ou, t) ==
    IF ou # 0 /\ t <= ou
    THEN [open |-> TRUE, failure_count |-> fc, opened_until |-> ou]
    ELSE IF ou # 0 /\ t > ou
         THEN [open |-> FALSE, failure_count |-> 0, opened_until |-> 0]
         ELSE [open |-> FALSE, failure_count |-> fc, opened_until |-> ou]

\* _ensure_circuit_allows that takes the circuit for closed whenever
\* failure_count is below the threshold
EnsureCircuitAllowsByCount(fc, ou, t) ==
    IF ou # 0 /\ t < ou /\ fc >= CircuitBreakerThreshold
    THEN [open |-> TRUE, failure_count |-> fc, opened_until |-> ou]
    ELSE IF ou # 0 /\ t >= ou
         THEN [open |-> FALSE, failure_count |-> 0, opened_until |-> 0]
         ELSE [open |-> FALSE, failure_count |-> fc, opened_until |-> ou]

\* _ensure_circuit_allows: [open, failure_count', opened_until']
EnsureCircuitAllows(fc, ou, t) ==
    IF ou # 0 /\ t < ou
    THEN [open |-> TRUE, failure_count |-> fc, opened_until |-> ou]
    ELSE IF ou # 0 /\ t >= ou
         THEN [open |-> FALSE, failure_count |-> 0, opened_until |-> 0]
         ELSE [open |-> FALSE, failure_count |-> fc, opened_until |-> ou]

\* _record_success that takes one failure off the count
RecordSuccessDecrement(fc) == IF fc > 0 THEN fc - 1 ELSE 0

\* _record_success
RecordSuccess(fc) == 0

\* _record_failure: [failure_count', opened_until']
RecordFailure(fc, ou, t) ==
    LET n == fc + 1 IN
    [failure_count |-> n,
     opened_until |-> IF n >= CircuitBreakerThreshold THEN t + CircuitResetSeconds ELSE ou]

\* ---------------------------------------------------------------- retry
\* the loop left one attempt early
ExhaustedEarly(attempt, r) == attempt >= r

\* if attempt > self._retries: break
Exhausted(attempt, r) == attempt > r

Min(a, b) == IF a <= b THEN a ELSE b

RECURSIVE Pow2(_)
Pow2(n) == IF n <= 0 THEN 1 ELSE 2 * Pow2(n - 1)

\* min(max_delay, base_delay * 2 ** (attempt - 1)); the jitter factor
\* (1 + random() * 0.25) only lengthens the sleep, as does a late wake-up.
Delay(attempt) == Min(MaxDelay, BaseDelay * Pow2(attempt - 1))

\* ---------------------------------------------------------------- tasks
\* pc: "idle"      no call in progress (outcome/result are the last call's)
\*     "rate_wait" asleep in _acquire_rate_limit until wake
\*     "hook"      inside asyncio.wait_for(func()), started at wake
\*     "backoff"   asleep between two attempts until wake
\* outcome: "none", "ok", "circuit_open" (AdapterError("Circuit breaker open")),
\*     "failed" (AdapterError("Operation failed after retries")),
\*     "index_error" (IndexError out of _acquire_rate_limit)
\* last_error, cause: <<>> = None, else <<attempt, kind>> of the caught exception
\* A call's locals are gone when it ends: only what the caller gets is kept.
IdleTask ==
    [pc |-> "idle", op |-> "fetch", query |-> <<>>, key |-> <<>>, attempt |-> 0, wake |-> 0,
     last_error |-> <<>>, outcome |-> "none", result |-> 0, cause |-> <<>>,
     cached |-> FALSE]

\* ------------------------------------------------- connector: fetching
\* An exception: its type, its message, the query the message quotes and
\* its __cause__; type "none" where nothing was raised.
NoError == [type |-> "none", msg |-> "none", query |-> <<>>, cause |-> "none"]

Raised(type, msg) == [type |-> type, msg |-> msg, query |-> <<>>, cause |-> "none"]

\* what self.adapter.fetch(query) raises in _fetch_many: the adapter
\* property's error without an adapter, else what the call ended with
FetchRaises(present, outcome) ==
    IF ~present THEN Raised("AdapterError", "Adapter has not been configured.")
    ELSE IF outcome = "circuit_open" THEN Raised("AdapterError", "Circuit breaker open")
    ELSE IF outcome = "failed" THEN Raised("AdapterError", "Operation failed after retries")
    ELSE IF outcome = "index_error" THEN Raised("IndexError", "deque index out of range")
    ELSE NoError

\* list(raw) of the v records a fetch returned
ListOf(v) == [i \in 1..v |-> i]

\* _fetch_many with "except AdapterError" in place of "except Exception"
FetchManyNarrow(present, q, tk) ==
    LET exc == FetchRaises(present, tk.outcome) IN
    IF exc.type = "none" THEN [error |-> NoError, records |-> ListOf(tk.result)]
    ELSE IF exc.type = "AdapterError"
         THEN [error |-> [type |-> "AdapterError", msg |-> "Failed to fetch data for query",
                          query |-> q, cause |-> exc.msg],
               records |-> <<>>]
         ELSE [error |-> exc, records |-> <<>>]

\* _fetch_many(**query) around a fetch that ended as tk: [error, records]
FetchMany(present, q, tk) ==
    LET exc == FetchRaises(present, tk.outcome) IN
    IF exc.type = "none" THEN [error |-> NoError, records |-> ListOf(tk.result)]
    ELSE [error |-> [type |-> "AdapterError", msg |-> "Failed to fetch data for query",
                     query |-> q, cause |-> exc.msg],
          records |-> <<>>]

\* _fetch_first: records[0] if records else None; first is <<>> for None
FetchFirst(fm) ==
    [done |-> TRUE, error |-> fm.error, records |-> fm.records,
     first |-> IF fm.records # <<>> THEN <<fm.records[1]>> ELSE <<>>]

NotFetched == [done |-> FALSE, error |-> NoError, records |-> <<>>, first |-> <<>>]

\* Every fetch is made through BaseConnector._fetch_first: when the fetch
\* of task t for query q ends in this step, its caller gets the result.
Connector(t, o, q) ==
    fetched' = [fetched EXCEPT ![t] =
                  IF o = "fetch" /\ task'[t].pc = "idle"
                  THEN FetchFirst(FetchMany(cfg.adapter, q, task'[t]))
                  ELSE NotFetched]

\* -------------------------------------------------- connector: mapping
Callers == 1..NumCallers

\* BaseConnector(adapter, map_concurrency): with or without adapter, and
\* map_concurrency from below 1 up to the longest payload list
MapConcurrencies == (0 - 1)..MaxPayloads

\* the Pydantic models payloads are validated against
Models == {"Model", "PriceEntry"}

\* A payload is the value of its one field: an int, a numeric string
\* (which validation coerces to the int) or a string that is no number.
ValidPayloads == {<<"int", 1>>, <<"str", 2>>}
BadPayload == <<"bad", 0>>
Payloads == ValidPayloads \cup {BadPayload}
NonePayload == <<"none", 0>>

RECURSIVE SeqsUpTo(_, _)
SeqsUpTo(S, n) ==
    IF n = 0 THEN {<<>>}
    ELSE LET shorter == SeqsUpTo(S, n - 1) IN
         shorter \cup {Append(q, x) : q \in {r \in shorter : Len(r) = n - 1}, x \in S}

\* model(**payload): [ok, value], value the validated model <<model, int>>
Validate(model, payload) ==
    IF payload[1] \in {"int", "str"}
    THEN [ok |-> TRUE, value |-> <<model, payload[2]>>]
    ELSE [ok |-> FALSE, value |-> <<>>]

\* An exception out of the connector: type, message, the name the message
\* ends with and the type of its __cause__.
NoExc == [type |-> "none", msg |-> "none", names |-> "none", cause |-> "none"]

\* raise AdapterError(f"Invalid payload for {model.__name__}") from exc
InvalidPayload(model) ==
    [type |-> "AdapterError", msg |-> "Invalid payload for", names |-> model,
     cause |-> "ValidationError"]

\* _map_single without the test for None: model(**None) is a TypeError
MapSingleNoNoneTest(model, payload) ==
    IF payload = NonePayload
    THEN [error |-> [type |-> "TypeError", msg |-> "argument after ** must be a mapping",
                     names |-> "none", cause |-> "none"],
          value |-> <<>>, validations |-> 1]
    ELSE LET v == Validate(model, payload) IN
         IF v.ok THEN [error |-> NoExc, value |-> v.value, validations |-> 1]
         ELSE [error |-> InvalidPayload(model), value |-> <<>>, validations |-> 1]

\* _map_single(model, payload): [error, value, validations]; value <<>> is None
MapSingle(model, payload) ==
    IF payload = NonePayload
    THEN [error |-> NoExc, value |-> <<>>, validations |-> 0]
    ELSE LET v == Validate(model, payload) IN
         IF v.ok THEN [error |-> NoExc, value |-> v.value, validations |-> 1]
         ELSE [error |-> InvalidPayload(model), value |-> <<>>, validations |-> 1]

\* what _connect_impl does: returns, raises an error of its own
\* (ConnectionError) or raises AdapterError itself
ConnectOutcomes == {"ok", "ConnectionError", "AdapterError"}

\* BaseConnector.connect -> self.adapter -> BaseAdapter.connect ->
\* _connect_impl: the error the caller gets
Connect(present, hook) ==
    IF ~present
    THEN [type |-> "AdapterError", msg |-> "Adapter has not been configured.",
          names |-> "none", cause |-> "none"]
    ELSE IF hook = "ok" THEN NoExc
    ELSE [type |-> hook, msg |-> "raised by _connect_impl", names |-> "none", cause |-> "none"]

\* asyncio.Semaphore(map_concurrency), without the max(1, ...)
SemaphoreValueRaw(map_concurrency) == map_concurrency

\* asyncio.Semaphore(max(1, map_concurrency))
SemaphoreValue(map_concurrency) == IF map_concurrency >= 1 THEN map_concurrency ELSE 1

\* "async with self._map_semaphore", entry: acquire() takes a permit
Acquire(value) == value - 1

\* a release that is skipped when the validation raised
ReleaseOnSuccess(value, ok) == IF ok THEN value + 1 ELSE value

\* "async with self._map_semaphore", exit: release() gives the permit back
\* whether the body returned (ok) or raised
Release(value, ok) == value + 1

\* mapped.insert(0, ...) in place of mapped.append(...)
CollectFirst(mapped, value) == <<value>> \o mapped

\* mapped.append(await task)
Collect(mapped, value) == Append(mapped, value)

\* pc: "idle" no call in progress, "await" suspended in _map_many on the
\*     next completed task
\* tasks: per payload "pending", "waiting" (for the semaphore), "ok", "error"
\* done: the tasks completed and not yet collected, in completion order
\* outcome: "none", "returned", "raised"; value / mapped: what was returned
IdleCall ==
    [pc |-> "idle", op |-> "none", model |-> "none", payloads |-> <<>>, tasks |-> <<>>,
     done |-> <<>>, mapped |-> <<>>, outcome |-> "none", error |-> NoExc, value |-> <<>>,
     validations |-> 0]

\* no connector call is made
ConnectorIdle ==
    /\ conn = [adapter |-> cfg.adapter, map_concurrency |-> 1]
    /\ map_semaphore = [value |-> SemaphoreValue(1), waiters |-> <<>>]
    /\ ready = <<>>
    /\ call = [c \in Callers |-> IdleCall]
    /\ connLeft = [c \in Callers |-> 0]

\* ----------------------------------------------------------------- lock
\* a variant that sleeps in the rate limiter inside "async with self._lock"
HoldsLockAtSleep(pc) == pc = "rate_wait"

\* Whether a coroutine suspended at pc is inside an "async with self._lock"
\* block: asyncio.sleep in _acquire_rate_limit comes after the block, and
\* _call_with_resilience awaits wait_for and sleep outside any block.
HoldsLockAt(pc) == FALSE

\* t runs its bookkeeping: the lock must be free to enter a block, and is
\* held afterwards only if t suspends inside one
Mutex(t) ==
    /\ lock \in {0, t}
    /\ lock' = IF HoldsLockAt(task'[t].pc) THEN t ELSE 0

\* ------------------------------------------------------------- observer
Range(s) == { s[i] : i \in DOMAIN s }
Without(s, k) == SelectSeq(s, LAMBDA x : x # k)
KeysOf(c) == { Items(c[i].key) : i \in DOMAIN c }
NotWritten == [at |-> -1, value |-> 0, q |-> <<>>]
\* per task: inv    hook invocations of the call
\*           nfail  failed attempts, ntimeout those of them that timed out
\*           waited the call had to sleep in the rate limiter
\*           saw    what the cache held for a fetch's query when it was called
\*           perm   a fetch found a write made under the other item order
\*           phase  the circuit when the call was made: "closed", "open"
\*                  (opened less than circuit_reset_seconds ago) or "after"
NoObs == [inv |-> 0, nfail |-> 0, ntimeout |-> 0, waited |-> FALSE, saw |-> "none",
          perm |-> FALSE, phase |-> "closed"]

\* the last write of k is at most / more than cache_ttl old
GhostFresh(k) == written[k].at >= 0 /\ now - written[k].at <= CacheTtl
GhostExpired(k) == written[k].at >= 0 /\ now - written[k].at > CacheTtl
\* fewer than circuit_reset_seconds since the failure that opened the circuit
GhostOpen == tripAt >= 0 /\ now - tripAt < CircuitResetSeconds

\* t got past the rate limiter in this step: its hook runs or it was rejected
Passed(t) == task'[t].pc = "hook" \/ task'[t].outcome = "circuit_open"

ObsGate(t) ==
    /\ admitLog' = IF Passed(t) THEN Append(admitLog, now) ELSE admitLog
    /\ hookLog' = IF task'[t].pc = "hook" THEN Append(hookLog, <<now, 1>>) ELSE hookLog
    /\ everRejected' = (everRejected \/ task'[t].outcome = "circuit_open")
    /\ IF Passed(t) /\ tripAt >= 0 /\ ~GhostOpen
       THEN consec' = 0 /\ tripAt' = -1
       ELSE UNCHANGED <<consec, tripAt>>

ObsCall(t, o, q) ==
    LET k == Items(q) IN
    /\ written' = IF o = "fetch" /\ GhostExpired(k)
                  THEN [written EXCEPT ![k] = NotWritten]
                  ELSE written
    /\ recency' = IF o = "fetch" /\ GhostFresh(k) THEN Append(Without(recency, k), k)
                  ELSE IF o = "fetch" /\ GhostExpired(k) THEN Without(recency, k)
                  ELSE recency
    /\ mustRefetch' = IF o = "fetch" THEN mustRefetch \ {k} ELSE mustRefetch
    /\ obs' = [obs EXCEPT ![t] =
                 [inv |-> IF task'[t].pc = "hook" THEN 1 ELSE 0,
                  nfail |-> 0, ntimeout |-> 0,
                  waited |-> task'[t].pc = "rate_wait",
                  saw |-> IF o # "fetch" THEN "none"
                          ELSE IF GhostFresh(k) THEN "fresh"
                          ELSE IF GhostExpired(k) THEN "expired" ELSE "absent",
                  perm |-> (o = "fetch" /\ GhostFresh(k) /\ written[k].q # q),
                  phase |-> IF GhostOpen THEN "open"
                            ELSE IF tripAt >= 0 THEN "after" ELSE "closed"]]
    /\ ObsGate(t)
    /\ UNCHANGED evictions

ObsRateWake(t) ==
    /\ obs' = [obs EXCEPT ![t].inv = IF task'[t].pc = "hook" THEN 1 ELSE 0]
    /\ ObsGate(t)
    /\ UNCHANGED <<written, recency, mustRefetch, evictions>>

ObsReturn(t, v, q) ==
    LET k == Items(q)
        r1 == Append(Without(recency, k), k)
        present == KeysOf(cache')
        gone == { kk \in Range(r1) : kk \notin present }
    IN  /\ consec' = 0
        /\ IF task[t].op = "fetch"
           THEN /\ written' = [kk \in QIds |->
                                 IF kk \notin present THEN NotWritten
                                 ELSE IF kk = k THEN [at |-> now, value |-> v, q |-> q]
                                 ELSE written[kk]]
                /\ recency' = SelectSeq(r1, LAMBDA x : x \in present)
                /\ evictions' =
                      IF gone = {} \/ evictions = "reordered" THEN evictions
                      ELSE IF \E g \in gone, kk \in present \ {k} : written[kk].at < written[g].at
                           THEN "reordered" ELSE "oldest"
                /\ UNCHANGED mustRefetch
           ELSE /\ written' = [kk \in QIds |-> NotWritten]
                /\ recency' = <<>>
                /\ mustRefetch' = mustRefetch \cup KeysOf(cache)
                /\ UNCHANGED evictions
        /\ UNCHANGED <<admitLog, tripAt, everRejected, hookLog, obs>>

ObsFailed(t, kind) ==
    /\ consec' = consec + 1
    /\ tripAt' = IF consec + 1 >= CircuitBreakerThreshold THEN now ELSE tripAt
    /\ obs' = [obs EXCEPT ![t].nfail = @ + 1,
                          ![t].ntimeout = IF kind = "timeout" THEN @ + 1 ELSE @]
    /\ UNCHANGED <<admitLog, written, recency, mustRefetch, evictions, everRejected,
                   hookLog>>

ObsBackoffWake(t) ==
    /\ obs' = [obs EXCEPT ![t].inv = @ + 1]
    /\ hookLog' = Append(hookLog, <<now, task'[t].attempt>>)
    /\ UNCHANGED <<admitLog, written, recency, mustRefetch, consec, tripAt, evictions,
                   everRejected>>

ObsTick ==
    /\ admitLog' = SelectSeq(admitLog, LAMBDA x : (now + 1) - x <= PerSeconds)
    /\ hookLog' = SelectSeq(hookLog, LAMBDA x : (now + 1) - x[1] <= PerSeconds)
    /\ UNCHANGED <<written, recency, mustRefetch, consec, tripAt, evictions,
                   everRejected, obs>>

\* -------------------------------------------------------------- actions
TypeOK ==
    /\ cfg \in Configs
    /\ now \in 0..MaxTime
    /\ failure_count \in Nat
    /\ opened_until \in Nat
    /\ \A t \in Tasks : task[t].pc \in {"idle", "rate_wait", "hook", "backoff"}

AdapterInit ==
    /\ cfg \in Configs
    /\ now = 0
    /\ rate_window = <<>>
    /\ cache = <<>>
    /\ failure_count = 0
    /\ opened_until = 0
    /\ task = [t \in Tasks |-> IdleTask]
    /\ opsLeft = [t \in Tasks |-> Budget(cfg, t)]
    /\ lock = 0
    /\ fetched = [t \in Tasks |-> NotFetched]
    /\ admitLog = <<>>
    /\ written = [k \in QIds |-> NotWritten]
    /\ recency = <<>>
    /\ mustRefetch = {}
    /\ consec = 0
    /\ tripAt = -1
    /\ evictions = "none"
    /\ everRejected = FALSE
    /\ hookLog = <<>>
    /\ obs = [t \in Tasks |-> NoObs]
    /\ heap = <<>>
    /\ held = 0

Init == AdapterInit /\ ConnectorIdle

\* The first attempt and every retry: for attempt in range(1, retries + 2),
\* asyncio.wait_for(func(), timeout) starts the hook.
StartAttempt(tk, n) == [tk EXCEPT !.pc = "hook", !.attempt = n, !.wake = now]

\* _call_with_resilience that checks the circuit before the rate limiter:
\* a rejected call records no timestamp
GateCircuitFirst(t, tk, c) ==
    LET rl == AcquireRateLimit(rate_window, now, cfg.max_calls)
        cb == EnsureCircuitAllows(failure_count, opened_until, now)
    IN  /\ cache' = c
        /\ IF cb.open
           THEN /\ task' = [task EXCEPT ![t] = [IdleTask EXCEPT !.outcome = "circuit_open"]]
                /\ UNCHANGED <<rate_window, failure_count, opened_until>>
           ELSE /\ rate_window' = rl.window
                /\ IF rl.error
                   THEN /\ task' = [task EXCEPT ![t] = [IdleTask EXCEPT !.outcome = "index_error"]]
                        /\ UNCHANGED <<failure_count, opened_until>>
                   ELSE IF ~rl.admitted
                   THEN /\ task' = [task EXCEPT ![t] = [tk EXCEPT !.pc = "rate_wait",
                                                                  !.wake = now + rl.wait_for]]
                        /\ UNCHANGED <<failure_count, opened_until>>
                   ELSE /\ failure_count' = cb.failure_count
                        /\ opened_until' = cb.opened_until
                        /\ task' = [task EXCEPT ![t] = StartAttempt(tk, 1)]

\* _call_with_resilience up to its first suspension: _acquire_rate_limit,
\* then _ensure_circuit_allows, then the first attempt.  tk is the task's
\* record after the caller's own bookkeeping, c the cache it leaves.
Gate(t, tk, c) ==
    LET rl == AcquireRateLimit(rate_window, now, cfg.max_calls)
        cb == EnsureCircuitAllows(failure_count, opened_until, now)
    IN  /\ rate_window' = rl.window
        /\ cache' = c
        /\ IF rl.error
           THEN /\ task' = [task EXCEPT ![t] = [IdleTask EXCEPT !.outcome = "index_error"]]
                /\ UNCHANGED <<failure_count, opened_until>>
           ELSE IF ~rl.admitted
           THEN /\ task' = [task EXCEPT ![t] = [tk EXCEPT !.pc = "rate_wait", !.wake = now + rl.wait_for]]
                /\ UNCHANGED <<failure_count, opened_until>>
           ELSE /\ failure_count' = cb.failure_count
                /\ opened_until' = cb.opened_until
                /\ IF cb.open
                   THEN task' = [task EXCEPT ![t] = [IdleTask EXCEPT !.outcome = "circuit_open"]]
                   ELSE task' = [task EXCEPT ![t] = StartAttempt(tk, 1)]

\* fetch that records a timestamp in the rate window on a cache hit too
CallCountingHits(t, o, q) ==
    /\ task[t].pc = "idle"
    /\ opsLeft[t] > 0
    /\ opsLeft' = [opsLeft EXCEPT ![t] = @ - 1]
    /\ UNCHANGED <<connVars, heapVars, cfg, now>>
    /\ LET key == CacheKey(q)
           got == GetCached(cache, key, now)
           tk == [IdleTask EXCEPT !.op = o, !.query = IF o = "fetch" THEN q ELSE <<>>,
                                  !.key = IF o = "fetch" THEN key ELSE <<>>]
       IN  IF ~cfg.adapter
           THEN /\ o = "fetch"
                /\ UNCHANGED <<task, rate_window, cache, failure_count, opened_until>>
           ELSE IF o = "fetch" /\ got.hit
           THEN /\ task' = [task EXCEPT ![t] = [IdleTask EXCEPT !.outcome = "ok", !.result = got.value,
                                                                !.cached = TRUE]]
                /\ cache' = got.cache
                /\ rate_window' = Append(TrimWindow(rate_window, now), now)
                /\ UNCHANGED <<failure_count, opened_until>>
           ELSE Gate(t, tk, IF o = "fetch" THEN got.cache ELSE cache)
    /\ Connector(t, o, q)
    /\ Mutex(t)
    /\ ObsCall(t, o, q)

\* fetch / upsert / delete called by an idle task
Call(t, o, q) ==
    /\ task[t].pc = "idle"
    /\ opsLeft[t] > 0
    /\ opsLeft' = [opsLeft EXCEPT ![t] = @ - 1]
    /\ UNCHANGED <<connVars, heapVars, cfg, now>>
    /\ LET key == CacheKey(q)
           got == GetCached(cache, key, now)
           tk == [IdleTask EXCEPT !.op = o, !.query = IF o = "fetch" THEN q ELSE <<>>,
                                  !.key = IF o = "fetch" THEN key ELSE <<>>]
       IN  IF ~cfg.adapter
           THEN \* the connector has no adapter to call
                /\ o = "fetch"
                /\ UNCHANGED <<task, rate_window, cache, failure_count, opened_until>>
           ELSE IF o = "fetch" /\ got.hit
           THEN /\ task' = [task EXCEPT ![t] = [IdleTask EXCEPT !.outcome = "ok", !.result = got.value,
                                                                !.cached = TRUE]]
                /\ cache' = got.cache
                /\ UNCHANGED <<rate_window, failure_count, opened_until>>
           ELSE Gate(t, tk, IF o = "fetch" THEN got.cache ELSE cache)
    /\ Connector(t, o, q)
    /\ Mutex(t)
    /\ ObsCall(t, o, q)

\* asyncio.sleep(wait_for) is over: _acquire_rate_limit is evaluated again
RateWake(t) ==
    /\ task[t].pc = "rate_wait"
    /\ now >= task[t].wake
    /\ UNCHANGED <<connVars, heapVars, cfg, now, opsLeft>>
    /\ Gate(t, task[t], cache)
    /\ Connector(t, task[t].op, task[t].query)
    /\ Mutex(t)
    /\ ObsRateWake(t)

\* the hook returns v within the timeout: _record_success, then the
\* caller's _set_cache (fetch) or _clear_cache (upsert, delete)
HookReturn(t, v) ==
    /\ task[t].pc = "hook"
    /\ now - task[t].wake <= Timeout
    /\ failure_count' = RecordSuccess(failure_count)
    /\ cache' = IF task[t].op = "fetch"
                THEN SetCache(cache, task[t].key, v, now)
                ELSE ClearCache(cache)
    /\ task' = [task EXCEPT ![t] = [IdleTask EXCEPT !.outcome = "ok", !.result = v]]
    /\ UNCHANGED <<connVars, heapVars, cfg, now, rate_window, opened_until, opsLeft>>
    /\ Connector(t, task[t].op, task[t].query)
    /\ Mutex(t)
    /\ ObsReturn(t, v, task[t].query)

\* except Exception as exc: the attempt failed with an exception of `kind`
AttemptFailed(t, kind) ==
    LET rf == RecordFailure(failure_count, opened_until, now)
        exc == <<task[t].attempt, kind>>
    IN  /\ failure_count' = rf.failure_count
        /\ opened_until' = rf.opened_until
        /\ IF Exhausted(task[t].attempt, cfg.retries)
           THEN task' = [task EXCEPT ![t] = [IdleTask EXCEPT !.outcome = "failed", !.cause = exc]]
           ELSE task' = [task EXCEPT ![t] = [@ EXCEPT !.pc = "backoff", !.last_error = exc,
                                                      !.wake = now + Delay(task[t].attempt)]]
        /\ UNCHANGED <<connVars, heapVars, cfg, now, rate_window, cache, opsLeft>>
        /\ Connector(t, task[t].op, task[t].query)
        /\ Mutex(t)
        /\ ObsFailed(t, kind)

\* the hook raises within the timeout
HookRaise(t) ==
    /\ task[t].pc = "hook"
    /\ now - task[t].wake <= Timeout
    /\ AttemptFailed(t, "raised")

\* a timeout that leaves the call at once, unrecorded and without a retry
HookTimeoutUnrecorded(t) ==
    /\ task[t].pc = "hook"
    /\ now - task[t].wake >= Timeout
    /\ task' = [task EXCEPT ![t] = [IdleTask EXCEPT !.outcome = "failed",
                                                    !.cause = <<task[t].attempt, "timeout">>]]
    /\ obs' = [obs EXCEPT ![t].nfail = @ + 1, ![t].ntimeout = @ + 1]
    /\ Connector(t, task[t].op, task[t].query)
    /\ Mutex(t)
    /\ UNCHANGED <<connVars, heapVars, cfg, now, rate_window, cache, failure_count, opened_until, opsLeft,
                   admitLog, written, recency, mustRefetch, consec, tripAt, evictions,
                   everRejected, hookLog>>

\* the hook has not completed after `timeout`: wait_for cancels it and
\* raises TimeoutError
HookTimeout(t) ==
    /\ task[t].pc = "hook"
    /\ now - task[t].wake >= Timeout
    /\ AttemptFailed(t, "timeout")

\* asyncio.sleep(delay) is over: the next attempt
BackoffWake(t) ==
    /\ task[t].pc = "backoff"
    /\ now >= task[t].wake
    /\ task' = [task EXCEPT ![t] = StartAttempt(task[t], task[t].attempt + 1)]
    /\ UNCHANGED <<connVars, heapVars, cfg, now, rate_window, cache, failure_count, opened_until, opsLeft,
                   lock, fetched>>
    /\ ObsBackoffWake(t)

\* time passes
Tick ==
    /\ now < MaxTime
    /\ now' = now + 1
    /\ UNCHANGED <<connVars, heapVars, cfg, rate_window, cache, failure_count, opened_until, task, opsLeft,
                   lock, fetched>>
    /\ ObsTick

Next ==
    \/ \E t \in Tasks, o \in Ops, q \in Queries : Call(t, o, q)
    \/ \E t \in Tasks : RateWake(t)
    \/ \E t \in Tasks, v \in cfg.values : HookReturn(t, v)
    \/ \E t \in Tasks : HookRaise(t)
    \/ \E t \in Tasks : HookTimeout(t)
    \/ \E t \in Tasks : BackoffWake(t)
    \/ Tick

Spec == Init /\ [][Next]_vars

\* ------------------------------------------------- connector: the calls
\* connect, _map_single and _map_many do not go through the adapter's gates
AdapterUntouched == UNCHANGED <<codeVars, obsVars, heapVars>>

ConnBudget(c) == IF c = 1 THEN MaxConnOps ELSE 1

\* A connector with or without adapter and with any map_concurrency; its
\* callers are coroutines of one event loop.
ConnInit ==
    /\ AdapterInit
    /\ cfg.callers = 1 /\ cfg.num_keys = 1
    /\ conn \in [adapter : {cfg.adapter}, map_concurrency : MapConcurrencies]
    /\ map_semaphore = [value |-> SemaphoreValue(conn.map_concurrency), waiters |-> <<>>]
    /\ ready = <<>>
    /\ call = [c \in Callers |-> IdleCall]
    /\ connLeft = [c \in Callers |-> ConnBudget(c)]

\* caller c starts a call
Begin(c) ==
    /\ call[c].pc = "idle"
    /\ connLeft[c] > 0
    /\ connLeft' = [connLeft EXCEPT ![c] = @ - 1]
    /\ UNCHANGED <<conn, map_semaphore>>
    /\ AdapterUntouched

Ended(cl, err, value) ==
    [cl EXCEPT !.pc = "idle", !.outcome = IF err.type = "none" THEN "returned" ELSE "raised",
               !.error = err, !.value = value]

\* BaseConnector.connect(**kwargs), the hook behaving as `hook`
ConnectCall(c, hook) ==
    /\ Begin(c)
    /\ call' = [call EXCEPT ![c] =
                  Ended([IdleCall EXCEPT !.op = "connect"], Connect(conn.adapter, hook), <<>>)]
    /\ UNCHANGED ready

\* _map_single(model, payload)
MapSingleCall(c, model, payload) ==
    LET r == MapSingle(model, payload) IN
    /\ Begin(c)
    /\ call' = [call EXCEPT ![c] =
                  Ended([IdleCall EXCEPT !.op = "map_single", !.model = model,
                                         !.payloads = <<payload>>,
                                         !.validations = r.validations],
                        r.error, r.value)]
    /\ UNCHANGED ready

\* _map_many(model, payloads) up to its first suspension: one task per
\* payload is created (create_task schedules its first step), then
\* "await task" on the first of as_completed(tasks) suspends the caller;
\* without payloads the loop body never runs and [] is returned.
MapManyCall(c, model, payloads) ==
    LET cl == [IdleCall EXCEPT !.op = "map_many", !.model = model, !.payloads = payloads] IN
    /\ Begin(c)
    /\ IF payloads = <<>>
       THEN /\ call' = [call EXCEPT ![c] = Ended(cl, NoExc, <<>>)]
            /\ UNCHANGED ready
       ELSE /\ call' = [call EXCEPT ![c] =
                          [cl EXCEPT !.pc = "await",
                                     !.tasks = [i \in DOMAIN payloads |->
                                                  [st |-> "pending", result |-> <<>>]]]]
            /\ ready' = ready \o [i \in DOMAIN payloads |-> <<"step", c, i>>]

\* The event loop runs the callback at the head of its queue.
\* map_one(payload) of caller c's task i: "async with self._map_semaphore"
\* is entered at once while the semaphore is free (else the task waits for
\* a release), the payload is validated, the semaphore is released (which
\* wakes the first waiter) and the task is done: its done callback, set by
\* as_completed, is scheduled.
MapOne ==
    /\ ready # <<>>
    /\ Head(ready)[1] \in {"step", "resume"}
    /\ LET c == Head(ready)[2]
           i == Head(ready)[3]
           free == /\ map_semaphore.value > 0
                   /\ (Head(ready)[1] = "resume" \/ map_semaphore.waiters = <<>>)
           v == Validate(call[c].model, call[c].payloads[i])
           woken == IF map_semaphore.waiters = <<>> THEN <<>>
                    ELSE LET w == Head(map_semaphore.waiters) IN << <<"resume", w[1], w[2]>> >>
       IN  IF free
           THEN /\ call' = [call EXCEPT ![c].tasks[i] =
                               [st |-> IF v.ok THEN "ok" ELSE "error", result |-> v.value],
                                        ![c].validations = @ + 1]
                /\ map_semaphore' = [map_semaphore EXCEPT
                                       !.value = Release(Acquire(@), v.ok),
                                       !.waiters = IF @ = <<>> THEN @ ELSE Tail(@)]
                /\ ready' = Tail(ready) \o woken \o << <<"done", c, i>> >>
           ELSE /\ call' = [call EXCEPT ![c].tasks[i].st = "waiting"]
                /\ map_semaphore' = [map_semaphore EXCEPT !.waiters = Append(@, <<c, i>>)]
                /\ ready' = Tail(ready)
    /\ UNCHANGED <<conn, connLeft>>
    /\ AdapterUntouched

\* as_completed's _on_completion(task): the task is queued as completed,
\* which wakes the caller suspended on the queue
OnCompletion ==
    /\ ready # <<>>
    /\ Head(ready)[1] = "done"
    /\ LET c == Head(ready)[2]
           i == Head(ready)[3]
       IN  IF call[c].pc = "idle"
           THEN \* _map_many has raised already: nobody collects the task
                /\ ready' = Tail(ready)
                /\ UNCHANGED call
           ELSE /\ call' = [call EXCEPT ![c].done = Append(@, i), ![c].pc = "woken"]
                /\ ready' = IF call[c].pc = "await"
                             THEN Append(Tail(ready), <<"main", c, 0>>)
                             ELSE Tail(ready)
    /\ UNCHANGED <<conn, map_semaphore, connLeft>>
    /\ AdapterUntouched

\* for task in as_completed(tasks): mapped.append(await task), for as long
\* as completed tasks are queued: a task's exception ends the call, the
\* last result returns mapped, an empty queue suspends the caller again
RECURSIVE Gather(_)
Gather(cl) ==
    IF cl.done = <<>>
    THEN IF Len(cl.mapped) = Len(cl.payloads)
         THEN [Ended(cl, NoExc, <<>>) EXCEPT !.tasks = <<>>]
         ELSE [cl EXCEPT !.pc = "await"]
    ELSE LET t == cl.tasks[Head(cl.done)] IN
         IF t.st = "ok"
         THEN Gather([cl EXCEPT !.mapped = Collect(@, t.result), !.done = Tail(@)])
         ELSE [Ended(cl, InvalidPayload(cl.model), <<>>) EXCEPT !.tasks = <<>>, !.done = <<>>,
                                                               !.mapped = <<>>]

\* the caller of _map_many resumes
Resume ==
    /\ ready # <<>>
    /\ Head(ready)[1] = "main"
    /\ LET c == Head(ready)[2] IN call' = [call EXCEPT ![c] = Gather(call[c])]
    /\ ready' = Tail(ready)
    /\ UNCHANGED <<conn, map_semaphore, connLeft>>
    /\ AdapterUntouched

\* The first caller makes up to MaxConnOps calls of any kind; the other
\* callers each map one list of at most one payload while it does.
ConnNext ==
    \/ \E hook \in ConnectOutcomes : ConnectCall(1, hook)
    \/ \E model \in Models, payload \in Payloads \cup {NonePayload} :
          MapSingleCall(1, model, payload)
    \/ \E c \in Callers :
          \E payloads \in SeqsUpTo(Payloads, IF c = 1 THEN MaxPayloads ELSE 1) :
             MapManyCall(c, "Model", payloads)
    \/ MapOne
    \/ OnCompletion
    \/ Resume

ConnSpec == ConnInit /\ [][ConnNext]_vars

\* the event loop keeps running the callbacks that are ready
ConnFairSpec ==
    ConnSpec /\ WF_vars(MapOne) /\ WF_vars(OnCompletion) /\ WF_vars(Resume)

\* ------------------------------------------------- adapter: termination
\* The first coroutine makes LiveOps calls and the others one call each,
\* all for one query, on an adapter with max_calls >= 1, with and without
\* retries; time advances for as long as a call is in progress,
\* LiveMaxTime being more than the calls can take together.
LiveOps == 2
LiveMaxTime == 12
LiveQuery == << <<1, 1>>, <<2, 1>> >>

LiveConfigs ==
    { [adapter |-> TRUE, max_calls |-> mc, retries |-> r, cache_size |-> 1,
       num_keys |-> 1, callers |-> NumTasks, values |-> 1..NumValues] :
          mc \in {1}, r \in {0, MaxRetries} }

LiveInit ==
    /\ cfg \in LiveConfigs
    /\ now = 0
    /\ rate_window = <<>>
    /\ cache = <<>>
    /\ failure_count = 0
    /\ opened_until = 0
    /\ task = [t \in Tasks |-> IdleTask]
    /\ opsLeft = [t \in Tasks |-> IF t = 1 THEN LiveOps ELSE 1]
    /\ lock = 0
    /\ fetched = [t \in Tasks |-> NotFetched]
    /\ admitLog = <<>>
    /\ written = [k \in QIds |-> NotWritten]
    /\ recency = <<>>
    /\ mustRefetch = {}
    /\ consec = 0
    /\ tripAt = -1
    /\ evictions = "none"
    /\ everRejected = FALSE
    /\ hookLog = <<>>
    /\ obs = [t \in Tasks |-> NoObs]
    /\ heap = <<>>
    /\ held = 0
    /\ ConnectorIdle

\* t is overdue by more than MaxLate: it sleeps in the rate limiter and
\* would be admitted now, its backoff sleep is over, or its attempt has
\* reached the timeout
MaxLate == 0

Overdue(t) ==
    \/ /\ task[t].pc = "rate_wait" /\ now >= task[t].wake + MaxLate
       /\ AcquireRateLimit(rate_window, now, cfg.max_calls).admitted
    \/ task[t].pc = "backoff" /\ now >= task[t].wake + MaxLate
    \/ task[t].pc = "hook" /\ now - task[t].wake >= Timeout + MaxLate

\* time passes while a call is in progress: the event loop wakes a sleeper
\* and cuts off an attempt at most MaxLate ticks late
Advance ==
    /\ \E t \in Tasks : task[t].pc # "idle"
    /\ \A t \in Tasks : ~Overdue(t)
    /\ now < LiveMaxTime
    /\ now' = now + 1
    /\ UNCHANGED <<connVars, heapVars, cfg, rate_window, cache, failure_count, opened_until,
                   task, opsLeft, lock, fetched>>
    /\ ObsTick

\* the attempt in progress finishes, or is cut off by the timeout
HookEnds(t) ==
    \/ \E v \in cfg.values : HookReturn(t, v)
    \/ HookRaise(t)
    \/ HookTimeout(t)

LiveNext ==
    \/ \E t \in Tasks, o \in Ops : Call(t, o, LiveQuery)
    \/ \E t \in Tasks : RateWake(t)
    \/ \E t \in Tasks : HookEnds(t)
    \/ \E t \in Tasks : BackoffWake(t)
    \/ Advance

\* the event loop wakes every sleeper whose time has come, every attempt
\* ends, and time advances
LiveSpec ==
    /\ LiveInit
    /\ [][LiveNext]_vars
    /\ WF_vars(Advance)
    /\ \A t \in Tasks :
          /\ WF_vars(RateWake(t))
          /\ WF_vars(HookEnds(t))
          /\ WF_vars(BackoffWake(t))

\* ------------------------------------------- record lists as objects
\* One caller fetches one query (its items in either order) from an
\* adapter whose hook succeeds at once; a list is an object of the heap,
\* and the caller may change the list it was handed.  written[k].value is the content the last fetch of k stored.
MaxExtra == 1

AliasInit ==
    /\ AdapterInit
    /\ ConnectorIdle
    /\ cfg.adapter /\ cfg.callers = 1 /\ cfg.retries = 0 /\ cfg.max_calls = MaxCalls

\* list(value): a new list object with the content of r
ListCopy(h, r) == Append(h, h[r])

\* _get_cached's "return value": the stored list itself
HitValue(h, stored) == [heap |-> h, ref |-> stored]

\* fetch(q) by the caller, the hook returning a new list of v records if
\* it is invoked: a hit returns what _get_cached returns; a miss passes
\* the rate limiter (a blocked call is not started here), stores
\* list(result) and returns result
Fetch(q, v) ==
    LET key == CacheKey(q)
        got == GetCached(cache, key, now)
        rl == AcquireRateLimit(rate_window, now, cfg.max_calls)
        result == Len(heap) + 1
        h1 == Append(heap, ListOf(v))
    IN  /\ opsLeft[1] > 0
        /\ opsLeft' = [opsLeft EXCEPT ![1] = @ - 1]
        /\ IF got.hit
           THEN LET hv == HitValue(heap, got.value) IN
                /\ heap' = hv.heap
                /\ held' = hv.ref
                /\ cache' = got.cache
                /\ UNCHANGED <<rate_window, written>>
           ELSE /\ rl.admitted
                /\ rate_window' = rl.window
                /\ heap' = ListCopy(h1, result)
                /\ cache' = SetCache(got.cache, key, Len(h1) + 1, now)
                /\ held' = result
                /\ written' = [written EXCEPT ![Items(q)] =
                                  [at |-> now, value |-> ListOf(v), q |-> q]]
        /\ task' = [task EXCEPT ![1] = [IdleTask EXCEPT !.outcome = "ok", !.cached = got.hit]]
        /\ UNCHANGED <<cfg, now, failure_count, opened_until, lock, fetched, connVars,
                       admitLog, recency, mustRefetch, consec, tripAt, evictions,
                       everRejected, hookLog, obs>>

\* the caller appends a record to the list its fetch returned
Mutate ==
    /\ held # 0
    /\ Len(heap[held]) <= NumValues + MaxExtra - 1
    /\ heap' = [heap EXCEPT ![held] = Append(@, 0)]
    /\ UNCHANGED <<codeVars, obsVars, connVars, held>>

\* time passes
AliasTick ==
    /\ now < MaxTime
    /\ now' = now + 1
    /\ UNCHANGED <<cfg, rate_window, cache, failure_count, opened_until, task, opsLeft,
                   lock, fetched, obsVars, connVars, heapVars>>

AliasNext ==
    \/ \E q \in QueriesOf(1), v \in cfg.values : Fetch(q, v)
    \/ Mutate
    \/ AliasTick

AliasSpec == AliasInit /\ [][AliasNext]_vars

\* =============================================================== claims

\* C1: the rate limiter admits at most max_calls calls within any trailing
\* interval of per_seconds: at every moment, the calls (fetches that missed
\* the cache, upserts, deletes) admitted during the last per_seconds, the
\* one admitted exactly per_seconds ago included, number at most max_calls;
\* so a call that finds max_calls timestamps in the window is not admitted
\* before more than per_seconds have passed since the oldest of them.
C1_RateLimit == Len(admitLog) <= cfg.max_calls

\* a call that had to wait for the window has been admitted: its hook ran
W_C1 ==
    \E t \in Tasks : obs[t].waited /\ obs[t].inv >= 1 /\ cfg.callers > 1

\* C7: in every reachable state the cache holds at most cache_size entries.
C7_CacheBound == Len(cache) <= cfg.cache_size

\* the cache is full after a write has evicted an entry
W_C7 == evictions # "none" /\ Len(cache) = cfg.cache_size /\ cfg.cache_size >= 2

\* C2: with cache_ttl > 0 and cache_size >= 1, a fetch whose query has the
\* same items (in any order) as a fetch that succeeded at most cache_ttl
\* ago, with no upsert, delete or eviction since, returns that fetch's
\* records at once and invokes no hook.
C2_CacheHit ==
    [][\A t \in Tasks, q \in Queries :
         (Call(t, "fetch", q) /\ GhostFresh(Items(q)))
            => /\ task'[t].pc = "idle"
               /\ task'[t].outcome = "ok"
               /\ task'[t].cached
               /\ task'[t].result = written[Items(q)].value
               /\ obs'[t].inv = 0]_vars

\* a fetch was served from what a fetch with the other item order had written
W_C2 ==
    \E t \in Tasks : task[t].cached /\ obs[t].perm /\ obs[t].inv = 0

C8_Lru ==
    [][\A t \in Tasks, v \in Values :
         (HookReturn(t, v) /\ task[t].op = "fetch")
            => LET k == Items(task[t].query)
                   r1 == Append(Without(recency, k), k)
               IN  /\ KeysOf(cache) = Range(recency)
                   /\ IF Len(r1) > cfg.cache_size
                      THEN KeysOf(cache') = Range(Tail(r1))
                      ELSE KeysOf(cache') = Range(r1)]_vars

\* an eviction took the least recently accessed entry although an entry
\* written before it, and read since, was in the cache
W_C8 == evictions = "reordered"

\* C3: after a successful upsert or delete, the next fetch of every query
\* that was cached before the write is not served from the cache (it
\* invokes the hook again), in every interleaving, fetches in flight during
\* the write included.
CE_C3 ==
    [][\A t \in Tasks, q \in Queries :
         (Call(t, "fetch", q) /\ Items(q) \in mustRefetch) => ~task'[t].cached]_vars

\* C5: a call that went through the retry loop returns after exactly k + 1
\* hook invocations when the hook failed k <= retries times and then
\* succeeded, and raises AdapterError after exactly retries + 1 invocations,
\* all failed, otherwise.
C5_Retries ==
    \A t \in Tasks :
        /\ (task[t].outcome = "ok" /\ ~task[t].cached)
              => obs[t].inv = obs[t].nfail + 1 /\ obs[t].nfail <= cfg.retries
        /\ task[t].outcome = "failed"
              => obs[t].inv = cfg.retries + 1 /\ obs[t].nfail = cfg.retries + 1
        /\ task[t].pc = "backoff" => obs[t].nfail <= cfg.retries

\* a call returned its result after a failed attempt and a retry
W_C5 ==
    \E t \in Tasks : task[t].outcome = "ok" /\ obs[t].nfail >= 1 /\ obs[t].inv = obs[t].nfail + 1

\* C9: an attempt cut off by the timeout is handled like one that raised: it
\* adds one to failure_count, opens the circuit when that reaches the
\* threshold, and is retried while attempts remain; when every attempt of a
\* call times out the call raises AdapterError after retries + 1 attempts.
C9_Timeout ==
    [][\A t \in Tasks :
         HookTimeout(t)
            => /\ failure_count' = failure_count + 1
               /\ failure_count' >= CircuitBreakerThreshold
                     => opened_until' = now + CircuitResetSeconds
               /\ failure_count' < CircuitBreakerThreshold => opened_until' = opened_until
               /\ IF task[t].attempt <= cfg.retries
                  THEN /\ task'[t].pc = "backoff"
                       /\ task'[t].attempt = task[t].attempt
                       /\ task'[t].last_error = <<task[t].attempt, "timeout">>
                  ELSE /\ task'[t].pc = "idle"
                       /\ task'[t].outcome = "failed"
                       /\ obs'[t].inv = cfg.retries + 1]_vars

\* every attempt of a call with a retry timed out and the call raised
W_C9 ==
    \E t \in Tasks :
        /\ cfg.retries >= 1
        /\ task[t].outcome = "failed"
        /\ obs[t].ntimeout = cfg.retries + 1
        /\ failure_count >= CircuitBreakerThreshold
        /\ opened_until # 0

\* C10: every call returns a result or raises AdapterError, and the
\* AdapterError raised when the retries are exhausted has the exception of
\* the last attempt as its cause.
CE_C10 ==
    \A t \in Tasks :
        /\ task[t].outcome \in {"none", "ok", "circuit_open", "failed"}
        /\ task[t].outcome = "failed" => task[t].cause[1] = obs[t].inv

\* C4 as claimed: with retries = 0, once circuit_breaker_threshold
\* consecutive calls have failed, a call started less than
\* circuit_reset_seconds later raises AdapterError("Circuit breaker open")
\* and invokes no hook, and the first call started after that is admitted
\* and invokes the hook.
CE_C4 ==
    \A t \in Tasks :
        cfg.retries = 0
           => /\ obs[t].phase = "open"
                   => /\ obs[t].inv = 0
                      /\ task[t].pc \in {"idle", "rate_wait"}
                      /\ task[t].pc = "idle" => task[t].outcome = "circuit_open"
              /\ obs[t].phase = "after"
                   => /\ task[t].outcome # "circuit_open"
                      /\ task[t].pc = "idle" => obs[t].inv >= 1

\* C4, amended: with retries = 0, once circuit_breaker_threshold attempts
\* have failed in a row (counted from the last success or circuit reset),
\* a call that gets past the rate limiter less than circuit_reset_seconds
\* after the last of those failures raises AdapterError("Circuit breaker
\* open") and invokes no hook; a call that gets past the rate limiter later
\* than that is admitted and invokes the hook.
C4_Circuit ==
    [][\A t \in Tasks :
         (/\ cfg.retries = 0
          /\ (RateWake(t) \/ \E o \in Ops, q \in Queries : Call(t, o, q))
          /\ Passed(t))
            => IF GhostOpen
               THEN /\ task'[t].pc = "idle"
                    /\ task'[t].outcome = "circuit_open"
                    /\ obs'[t].inv = 0
               ELSE /\ task'[t].pc = "hook"
                    /\ obs'[t].inv = 1]_vars

\* the open circuit has rejected a call, and a call made after
\* circuit_reset_seconds has been admitted: its hook runs
W_C4 ==
    /\ cfg.retries = 0
    /\ everRejected
    /\ \E t \in Tasks : obs[t].phase = "after" /\ task[t].pc = "hook" /\ obs[t].inv = 1

\* C15: _fetch_many, and _fetch_first through it, hands its caller either
\* the records of the adapter's fetch or an AdapterError: whatever ended
\* the fetch (an open circuit, exhausted retries, an error of the rate
\* limiter, a missing adapter) is rewrapped as AdapterError("Failed to fetch
\* data for query: <the query of the call>"); _fetch_first gives the first
\* record, or None when there is no record.
C15_FetchWraps ==
    [][\A t \in Tasks :
         LET f == fetched'[t] IN
         (f.done /\ (task[t].pc # "idle" \/ opsLeft'[t] # opsLeft[t]))
            => /\ f.error.type \in {"none", "AdapterError"}
               /\ f.error.type = "AdapterError" <=> (~cfg.adapter \/ task'[t].outcome # "ok")
               /\ f.error.type = "AdapterError"
                    => /\ f.error.msg = "Failed to fetch data for query"
                       /\ IF task[t].pc = "idle"
                          THEN \E q \in Queries : Call(t, "fetch", q) /\ f.error.query = q
                          ELSE f.error.query = task[t].query
               /\ f.error.type = "none"
                    => /\ Len(f.records) = task'[t].result
                       /\ f.first = IF f.records = <<>> THEN <<>> ELSE <<f.records[1]>>]_vars

\* a fetch rejected by the open circuit reached its caller as the
\* AdapterError that names the query
W_C15 ==
    \E t \in Tasks :
        /\ fetched[t].done
        /\ fetched[t].error.type = "AdapterError"
        /\ fetched[t].error.cause = "Circuit breaker open"
        /\ fetched[t].error.query \in Queries

\* C16: opened_until is set only when failure_count >=
\* circuit_breaker_threshold.
CE_C16 == opened_until # 0 => failure_count >= CircuitBreakerThreshold

\* C17 as claimed: while the circuit is open (opened_until set and
\* now < opened_until) no hook invocation begins, and every call that is not
\* served from the cache is rejected, for every value of retries.
CE_C17 ==
    [][\A t \in Tasks :
         (opened_until # 0 /\ now < opened_until)
            => /\ ~(task[t].pc # "hook" /\ task'[t].pc = "hook")
               /\ ((RateWake(t) \/ \E o \in Ops, q \in Queries : Call(t, o, q)) /\ Passed(t))
                     => task'[t].outcome = "circuit_open"]_vars

\* C17, amended: while the circuit is open, every fetch (not served from
\* the cache), upsert or delete that gets to the circuit check is rejected
\* with AdapterError("Circuit breaker open") and starts no attempt, for
\* every value of retries and every interleaving; the only hook invocations
\* that begin during the open interval are retries of calls that passed the
\* circuit check before.
C17_Open ==
    [][\A t \in Tasks :
         (opened_until # 0 /\ now < opened_until)
            => /\ (task[t].pc # "hook" /\ task'[t].pc = "hook")
                     => task[t].pc = "backoff" /\ task'[t].attempt >= 2
               /\ ((RateWake(t) \/ \E o \in Ops, q \in Queries : Call(t, o, q)) /\ Passed(t))
                     => /\ task'[t].outcome = "circuit_open"
                        /\ task'[t].pc = "idle"
                        /\ obs'[t].inv = 0]_vars

\* the circuit is open, with retries configured, and has just rejected a call
W_C17 ==
    /\ opened_until # 0 /\ now < opened_until
    /\ cfg.retries >= 1
    /\ \E t \in Tasks : task[t].outcome = "circuit_open" /\ obs[t].inv = 0

\* C18: the cache entry of a key holds the result of the most recently
\* completed fetch of that key, also when several fetches of the key run
\* concurrently.
C18_LastWrite ==
    \A i \in DOMAIN cache :
        LET k == Items(cache[i].key) IN
        written[k].at >= 0 /\ cache[i].value = written[k].value

\* two fetches of one key that both missed the cache have completed with
\* different results, and the key is cached
W_C18 ==
    /\ cfg.callers > 1
    /\ Len(cache) = 1
    /\ \A t \in Tasks : /\ task[t].pc = "idle" /\ task[t].outcome = "ok" /\ ~task[t].cached
                        /\ obs[t].saw = "absent"
    /\ \E t, u \in Tasks : task[t].result # task[u].result

CE_C20 == Len(hookLog) <= cfg.max_calls

\* C20, amended: at most max_calls calls have their first attempt started
\* within any interval of per_seconds, for every value of retries (the
\* later attempts of a call are not counted against the limit).
C20_FirstAttempts == Len(SelectSeq(hookLog, LAMBDA x : x[2] = 1)) <= cfg.max_calls

\* max_calls first attempts and a retry were started within per_seconds
W_C20 ==
    /\ cfg.max_calls > 0
    /\ Len(SelectSeq(hookLog, LAMBDA x : x[2] = 1)) = cfg.max_calls
    /\ \E i \in DOMAIN hookLog : hookLog[i][2] >= 2


\* C11 (as claimed): when the _connect_impl hook raises, the error that
\* reaches the caller of connect is an AdapterError: every connect call
\* that ended with an exception ended with an AdapterError.
CE_C11 ==
    \A c \in Callers :
       call[c].op = "connect" /\ call[c].outcome = "raised"
          => call[c].error.type = "AdapterError"

\* C12: a _map_many call over payloads of which exactly one is invalid
\* always ends, and ends by raising AdapterError, whatever map_concurrency
\* is (below 1, below the number of payloads or not): no such call has
\* returned, and every such call in progress leads to its caller being
\* back with the AdapterError; its tasks never wait on the semaphore forever.
C12_MapManyRaises ==
    /\ [](\A c \in Callers :
             /\ call[c].op = "map_many" /\ call[c].pc = "idle"
             /\ Cardinality({i \in DOMAIN call[c].payloads : call[c].payloads[i] = BadPayload}) = 1
             => call[c].outcome = "raised" /\ call[c].error.type = "AdapterError")
    /\ \A c \in Callers :
          (/\ call[c].pc # "idle"
           /\ Cardinality({i \in DOMAIN call[c].payloads : call[c].payloads[i] = BadPayload}) = 1)
          ~> (/\ call[c].pc = "idle"
              /\ call[c].outcome = "raised"
              /\ call[c].error.type = "AdapterError")

\* C12 witness: a _map_many call over three payloads, one of them invalid
\* and not the first, has raised AdapterError on a connector whose
\* map_concurrency is below 1
W_C12 ==
    /\ conn.map_concurrency < 1
    /\ call[1].op = "map_many" /\ call[1].pc = "idle"
    /\ Len(call[1].payloads) = MaxPayloads
    /\ call[1].payloads[1] # BadPayload
    /\ Cardinality({i \in DOMAIN call[1].payloads : call[1].payloads[i] = BadPayload}) = 1
    /\ call[1].outcome = "raised" /\ call[1].error.type = "AdapterError"
    /\ call[1].validations = MaxPayloads

\* C13: _map_many returns exactly one validated model per input payload,
\* in the order of the input payloads, for every map_concurrency and
\* however the validation tasks of concurrent calls interleave on the
\* event loop: a call whose payloads are all valid returns, and what a
\* call returns is the element-wise mapping of its input.
C13_MapManyInOrder ==
    \A c \in Callers :
       call[c].op = "map_many" /\ call[c].pc = "idle"
          => /\ (\A i \in DOMAIN call[c].payloads : call[c].payloads[i] \in ValidPayloads)
                   => call[c].outcome = "returned"
             /\ call[c].outcome = "returned"
                   => /\ Len(call[c].mapped) = Len(call[c].payloads)
                      /\ \A i \in DOMAIN call[c].payloads :
                            call[c].mapped[i] = <<call[c].model, call[c].payloads[i][2]>>

\* C13 witness: on a connector whose map_concurrency is below the number
\* of payloads, a call over three payloads that are not all equal has
\* returned after another caller's call ran during it
W_C13 ==
    /\ conn.map_concurrency < MaxPayloads
    /\ call[1].op = "map_many" /\ call[1].outcome = "returned"
    /\ Len(call[1].mapped) = MaxPayloads
    /\ call[1].payloads[1] # call[1].payloads[MaxPayloads]
    /\ call[2].op = "map_many" /\ call[2].outcome = "returned" /\ Len(call[2].mapped) = 1
    /\ connLeft[1] = MaxConnOps - 1

\* C14: _map_single returns None for a None payload, without validating;
\* returns the populated model for a payload that passes validation; raises
\* AdapterError naming the target model for a payload that fails
\* validation; and validates a payload once, with no retry.
C14_MapSingle ==
    \A c \in Callers :
       call[c].op = "map_single" /\ call[c].pc = "idle"
          => LET payload == call[c].payloads[1] IN
             /\ payload = NonePayload
                   => /\ call[c].outcome = "returned" /\ call[c].value = <<>>
                      /\ call[c].validations = 0
             /\ payload \in ValidPayloads
                   => /\ call[c].outcome = "returned"
                      /\ call[c].value = <<call[c].model, payload[2]>>
                      /\ call[c].validations = 1
             /\ payload = BadPayload
                   => /\ call[c].outcome = "raised"
                      /\ call[c].error.type = "AdapterError"
                      /\ call[c].error.names = call[c].model
                      /\ call[c].validations = 1

\* C14 witness: _map_single returned None for a None payload, after a
\* first call of the same connector
W_C14 ==
    /\ call[1].op = "map_single" /\ call[1].payloads = <<NonePayload>>
    /\ call[1].outcome = "returned" /\ call[1].value = <<>>
    /\ connLeft[1] = 0


\* C22: failure_count always equals the number of failed attempts recorded
\* since the most recent successful attempt or circuit reset: each failed
\* attempt (raised or timed out, first attempt or retry) adds one, each
\* successful attempt sets it to 0, and opened_until becomes now +
\* circuit_reset_seconds whenever the count after the increment has reached
\* circuit_breaker_threshold.
C22_FailureCount ==
    [][/\ \A t \in Tasks :
            (HookRaise(t) \/ HookTimeout(t))
               => /\ failure_count' = failure_count + 1
                  /\ failure_count' >= CircuitBreakerThreshold
                        => opened_until' = now + CircuitResetSeconds
       /\ \A t \in Tasks, v \in Values : HookReturn(t, v) => failure_count' = 0
       /\ failure_count' = consec']_vars

\* the failure of a retry has brought the count to the threshold and opened
\* the circuit, and the call sleeps before its next attempt
W_C22 ==
    \E t \in Tasks :
        /\ task[t].pc = "backoff" /\ obs[t].nfail >= 2
        /\ failure_count = obs[t].nfail
        /\ failure_count >= CircuitBreakerThreshold
        /\ opened_until = now + CircuitResetSeconds


\* C23: each fetch that misses the cache, and each upsert or delete, passes
\* the rate limiter and the circuit check exactly once, both before its
\* first attempt: the step in which the call gets through records one
\* timestamp, no call leaves without having got through, and the attempts
\* and retries that follow record no timestamp and leave the circuit state
\* to _record_success / _record_failure.
CE_C23 ==
    [][\A t \in Tasks :
         /\ ((RateWake(t) \/ \E o \in Ops, q \in Queries : Call(t, o, q)) /\ ~task'[t].cached)
               => /\ Passed(t) => rate_window' = Append(TrimWindow(rate_window, now), now)
                  /\ ~Passed(t) => rate_window' = TrimWindow(rate_window, now)
                  /\ task'[t].pc = "idle" => (cfg.adapter => Passed(t))
         /\ BackoffWake(t)
               => /\ rate_window' = rate_window
                  /\ failure_count' = failure_count /\ opened_until' = opened_until
                  /\ task'[t].pc = "hook"
         /\ (task[t].pc = "hook" /\ task'[t] # task[t]) => rate_window' = rate_window]_vars


\* C24: a fetch served from the cache returns the cached records at once,
\* records no timestamp in the rate window, leaves failure_count and
\* opened_until as they are and invokes no hook; a fetch whose entry is
\* fresh is served so whatever the circuit and the rate window are, open
\* and full included.
C24_HitBypasses ==
    [][\A t \in Tasks, q \in Queries :
         Call(t, "fetch", q)
            => /\ task'[t].cached
                  => /\ task'[t].pc = "idle" /\ task'[t].outcome = "ok"
                     /\ task'[t].result = written[Items(q)].value
                     /\ rate_window' = rate_window
                     /\ failure_count' = failure_count
                     /\ opened_until' = opened_until
                     /\ hookLog' = hookLog /\ admitLog' = admitLog
                     /\ obs'[t].inv = 0
               /\ GhostFresh(Items(q)) => task'[t].cached]_vars

\* the last call of a single caller was a fetch served from the cache while
\* the circuit was open and the rate window held max_calls timestamps of
\* the last per_seconds
W_C24 ==
    /\ opened_until # 0 /\ now < opened_until
    /\ cfg.callers = 1 /\ cfg.max_calls > 0
    /\ Len(TrimWindow(rate_window, now)) = cfg.max_calls
    /\ \E t \in Tasks : task[t].cached /\ task[t].outcome = "ok" /\ obs[t].inv = 0


\* C25: the rate limiter never raises: for every max_calls >= 0 and every
\* interleaving, an evaluation of the rate limiter by a call that was not
\* served from the cache either admits the call (which goes on to the
\* circuit check) or puts it to sleep; it never ends the call.
CE_C25 ==
    [][\A t \in Tasks :
         (/\ (RateWake(t) \/ \E o \in Ops, q \in Queries : Call(t, o, q))
          /\ cfg.adapter /\ ~task'[t].cached)
            => /\ ~AcquireRateLimit(rate_window, now, cfg.max_calls).error
               /\ (Passed(t) \/ task'[t].pc = "rate_wait")]_vars


\* C27 as claimed: a call rejected because the circuit is open leaves
\* failure_count, opened_until and the cache unchanged and invokes no
\* hook, and has recorded a timestamp in the rate window before it is
\* rejected.
CE_C27 ==
    [][\A t \in Tasks :
         (/\ (RateWake(t) \/ \E o \in Ops, q \in Queries : Call(t, o, q))
          /\ task'[t].outcome = "circuit_open")
            => /\ failure_count' = failure_count
               /\ opened_until' = opened_until
               /\ cache' = cache
               /\ obs'[t].inv = 0 /\ hookLog' = hookLog
               /\ rate_window' = Append(TrimWindow(rate_window, now), now)]_vars

\* C27, amended: a call rejected because the circuit is open leaves
\* failure_count and opened_until unchanged and invokes no hook, and
\* leaves the cache unchanged except that a rejected fetch has removed the
\* expired entry of its own key when it looked it up; it has already
\* passed the rate limiter: it has recorded a timestamp in the rate window,
\* so rejected calls count against max_calls and can be delayed by the rate
\* limiter before they are rejected.
C27_Rejected ==
    [][\A t \in Tasks :
         /\ \A o \in Ops, q \in Queries :
               (Call(t, o, q) /\ task'[t].outcome = "circuit_open")
                  => /\ failure_count' = failure_count
                     /\ opened_until' = opened_until
                     /\ cache' = IF o = "fetch"
                                 THEN SelectSeq(cache, LAMBDA e :
                                         ~(Items(e.key) = Items(q) /\ now > e.expires_at))
                                 ELSE cache
                     /\ obs'[t].inv = 0 /\ hookLog' = hookLog
                     /\ rate_window' = Append(TrimWindow(rate_window, now), now)
         /\ (RateWake(t) /\ task'[t].outcome = "circuit_open")
               => /\ failure_count' = failure_count
                  /\ opened_until' = opened_until
                  /\ cache' = cache
                  /\ obs'[t].inv = 0 /\ hookLog' = hookLog
                  /\ rate_window' = Append(TrimWindow(rate_window, now), now)]_vars

\* a call that had to sleep in the rate limiter has been rejected by the
\* open circuit on waking, its timestamp in the rate window
W_C27 ==
    \E t \in Tasks :
        /\ task[t].outcome = "circuit_open" /\ obs[t].waited /\ obs[t].inv = 0
        /\ rate_window # <<>> /\ rate_window[Len(rate_window)] = now
        /\ opened_until # 0 /\ now < opened_until


\* C28: once a call has returned the result of its hook, no call is
\* rejected with "Circuit breaker open" unless a failure has been recorded
\* since: a success leaves the circuit closed, so whenever the open circuit
\* rejects a call, at least one attempt has failed since the last
\* successful attempt, for every value of retries and
\* circuit_breaker_threshold.
CE_C28 ==
    [][\A t \in Tasks :
         (/\ (RateWake(t) \/ \E o \in Ops, q \in Queries : Call(t, o, q))
          /\ task'[t].outcome = "circuit_open")
            => consec > 0]_vars


\* C29 as claimed: a caller blocked by a full rate window whose computed
\* wait (per_seconds - (now - oldest timestamp)) is over is admitted at its
\* next evaluation, provided no other caller was admitted in the meantime
\* (the oldest timestamp is still the one the wait was computed from):
\* once exactly per_seconds has elapsed, that timestamp is evicted.
CE_C29 ==
    \A t \in Tasks :
        (/\ task[t].pc = "rate_wait"
         /\ rate_window # <<>> /\ Head(rate_window) + PerSeconds = task[t].wake
         /\ now >= task[t].wake)
           => AcquireRateLimit(rate_window, now, cfg.max_calls).admitted

\* C29, amended: a caller blocked by a full rate window that sleeps for the
\* computed wait is admitted at its first evaluation made more than
\* per_seconds after the oldest timestamp, provided no other caller was
\* admitted in the meantime; at an evaluation made exactly per_seconds
\* after the oldest timestamp that timestamp is still in the window (it is
\* evicted only when more than per_seconds has elapsed), the computed wait
\* is 0 and the caller sleeps again.
C29_Readmission ==
    \A t \in Tasks :
        (/\ task[t].pc = "rate_wait"
         /\ rate_window # <<>> /\ Head(rate_window) + PerSeconds = task[t].wake)
           => LET rl == AcquireRateLimit(rate_window, now, cfg.max_calls) IN
              /\ now > task[t].wake => rl.admitted /\ ~rl.error
              /\ now = task[t].wake => ~rl.admitted /\ ~rl.error /\ rl.wait_for = 0
              /\ now < task[t].wake => ~rl.admitted /\ rl.wait_for = task[t].wake - now

\* a single caller has slept for the computed wait and is still blocked:
\* exactly per_seconds has passed since the oldest timestamp
W_C29 ==
    \E t \in Tasks :
        /\ cfg.callers = 1
        /\ task[t].pc = "rate_wait" /\ obs[t].waited
        /\ rate_window # <<>> /\ Head(rate_window) + PerSeconds = task[t].wake
        /\ now = task[t].wake
        /\ Len(rate_window) = cfg.max_calls


\* C26: at every moment at most max(1, map_concurrency) validation tasks
\* of a connector hold a permit of its semaphore, over all the _map_many
\* calls in progress on it (the permits out never exceed the width, the
\* value never goes below 0), and every task gives its permit back whether
\* its validation succeeded or failed: when no task is left to run and no
\* call is in progress the semaphore is back at max(1, map_concurrency).
C26_Permits ==
    LET width == IF conn.map_concurrency >= 1 THEN conn.map_concurrency ELSE 1
        out == width - map_semaphore.value
    IN  /\ out >= 0 /\ out <= width
        /\ (ready = <<>> /\ \A c \in Callers : call[c].pc = "idle")
              => map_semaphore.value = width

\* on a connector with map_concurrency below 1, a _map_many call over
\* three payloads has raised for an invalid one while another caller's
\* call returned, every task is done, and the semaphore is back at 1
W_C26 ==
    /\ conn.map_concurrency < 1
    /\ call[1].op = "map_many" /\ call[1].outcome = "raised"
    /\ call[1].validations = MaxPayloads
    /\ call[2].op = "map_many" /\ call[2].outcome = "returned" /\ call[2].validations = 1
    /\ ready = <<>> /\ \A c \in Callers : call[c].pc = "idle"
    /\ map_semaphore.value = 1 /\ map_semaphore.waiters = <<>>


\* C21: a cache hit returns a defensive copy of the stored value: after
\* the caller has changed the record list a fetch served from the cache
\* returned, a cache hit for the same key still returns the records that
\* were stored for the key.
CE_C21 ==
    [][\A q \in QueriesOf(1), v \in Values :
         (Fetch(q, v) /\ task'[1].cached) => heap'[held'] = written[Items(q)].value]_vars


\* C30: with max_calls >= 1, finitely many calls, time advancing and every
\* attempt ending (by itself or by the timeout), every fetch, upsert or
\* delete call eventually returns or raises: a caller waiting in the rate
\* limiter eventually leaves it, and the call makes at most retries + 1
\* attempts, sleeps between attempts only while attempts remain (at most
\* retries times) and does not sleep after its final failed attempt.
C30_Terminates ==
    /\ [](\A t \in Tasks :
             /\ obs[t].inv <= cfg.retries + 1
             /\ task[t].pc = "backoff"
                   => task[t].attempt <= cfg.retries /\ obs[t].nfail = task[t].attempt
             /\ obs[t].nfail = cfg.retries + 1 => task[t].pc = "idle")
    /\ \A t \in Tasks : task[t].pc = "rate_wait" ~> task[t].pc # "rate_wait"
    /\ \A t \in Tasks : task[t].pc # "idle" ~> task[t].pc = "idle"

\* a call that had to wait in the rate limiter has ended after retries + 1
\* failed attempts, and every caller has made all its calls
W_C30 ==
    /\ cfg.retries >= 1
    /\ \A t \in Tasks : task[t].pc = "idle" /\ opsLeft[t] = 0
    /\ \E t \in Tasks : /\ obs[t].waited /\ task[t].outcome = "failed"
                        /\ obs[t].inv = cfg.retries + 1

====
